---- MODULE Spec2Model ----
(***************************************************************************)
(* Bulk user onboarding (src/bulk_onboard.py): one run of main().  The     *)
(* manager loads the IAM groups, reads the CSV rows one by one, provisions *)
(* each row with create_user, and finally writes the detail report and the *)
(* JSON audit log.                                                         *)
(*                                                                         *)
(* Text that the program strips (CSV fields) is a sequence of atoms: the   *)
(* atom WS is one whitespace character, any other atom is a run of         *)
(* non-whitespace characters.  Identifiers that the program never edits    *)
(* (group names, OCIDs, error texts) are plain strings, and None is the    *)
(* string "None".                                                          *)
(***************************************************************************)
EXTENDS Integers, Sequences, FiniteSets, TLC

\* Largest number of data rows the CSV reader yields in one run.
MaxRows == 2

None == "None"
WS == " "

(***************************************************************************)
(* str.strip()                                                             *)
(***************************************************************************)
RECURSIVE lstrip(_)
lstrip(s) ==
    IF s # <<>> /\ Head(s) = WS THEN lstrip(Tail(s)) ELSE s

RECURSIVE rstrip(_)
rstrip(s) ==
    IF s # <<>> /\ s[Len(s)] = WS THEN rstrip(SubSeq(s, 1, Len(s) - 1)) ELSE s

strip(s) == rstrip(lstrip(s))

(***************************************************************************)
(* ROLE_MAPPINGS and ROLE_MAPPINGS.get(role)                               *)
(***************************************************************************)
\* Mutant: the SecurityAdmin entry carries the group of DataAnalyst.
ROLE_MAPPINGS_CopyPaste ==
    [r \in {"SecurityAdmin", "CloudEngineer", "ClinicalAdmin",
            "ComplianceAuditor", "Developer", "DataAnalyst"} |->
        CASE r = "SecurityAdmin"     -> "HC-Data-Analysts"
          [] r = "CloudEngineer"     -> "HC-Cloud-Engineers"
          [] r = "ClinicalAdmin"     -> "HC-Clinical-App-Admins"
          [] r = "ComplianceAuditor" -> "HC-Compliance-Auditors"
          [] r = "Developer"         -> "HC-Clinical-Developers"
          [] r = "DataAnalyst"       -> "HC-Data-Analysts"]

ROLE_MAPPINGS ==
    [r \in {"SecurityAdmin", "CloudEngineer", "ClinicalAdmin",
            "ComplianceAuditor", "Developer", "DataAnalyst"} |->
        CASE r = "SecurityAdmin"     -> "HC-Security-Admins"
          [] r = "CloudEngineer"     -> "HC-Cloud-Engineers"
          [] r = "ClinicalAdmin"     -> "HC-Clinical-App-Admins"
          [] r = "ComplianceAuditor" -> "HC-Compliance-Auditors"
          [] r = "Developer"         -> "HC-Clinical-Developers"
          [] r = "DataAnalyst"       -> "HC-Data-Analysts"]

\* A role text is a key of ROLE_MAPPINGS when it is exactly that one word.
IsRoleKey(role) == Len(role) = 1 /\ role[1] \in DOMAIN ROLE_MAPPINGS

\* Mutant: unknown roles fall back to a default group.
RoleGetDefaulting(role) ==
    IF IsRoleKey(role) THEN ROLE_MAPPINGS[role[1]] ELSE "HC-Data-Analysts"

RoleGet(role) ==
    IF IsRoleKey(role) THEN ROLE_MAPPINGS[role[1]] ELSE None

(***************************************************************************)
(* The directory service as the program sees it: what list_groups can      *)
(* return, and how each of the three provisioning calls can end.           *)
(***************************************************************************)
Grp(n, i) == [name |-> n, id |-> i]

AllGroups ==
    << Grp("Administrators", "ocid1.group.admin"),
       Grp("HC-Security-Admins", "ocid1.group.sec"),
       Grp("HC-Cloud-Engineers", "ocid1.group.cloud"),
       Grp("HC-Clinical-App-Admins", "ocid1.group.clin"),
       Grp("HC-Compliance-Auditors", "ocid1.group.audit"),
       Grp("HC-Clinical-Developers", "ocid1.group.dev"),
       Grp("HC-Data-Analysts", "ocid1.group.data") >>

\* Listings the tenancy may return: every group, all but HC-Security-Admins,
\* and a tenancy with no healthcare group at all.
GroupListings ==
    { AllGroups,
      SelectSeq(AllGroups, LAMBDA g : g.name # "HC-Security-Admins"),
      SubSeq(AllGroups, 1, 1) }

\* How a remote call ends: normally, with oci.exceptions.ServiceError, or
\* with any other exception.
CallResults == {"ok", "ServiceError", "Exception"}

\* The OCID the directory assigns to the n-th account it creates.
Ocid(n) == "ocid1.user." \o ToString(n)

(***************************************************************************)
(* The command line and the input file.                                    *)
(***************************************************************************)
\* Values of --report: the default, a path without ".csv", and the empty path.
ReportPaths ==
    { <<"onboarding_report", ".csv">>, <<"results", ".txt">>, <<>> }

\* What open(csv_file) and csv.DictReader find: no file, an empty file
\* (fieldnames is None), or a header row.
CsvHeaders ==
    { <<"username", "email", "role", "department", "description">>,
      <<"role", "username", "email">>,
      <<"username", "email">> }

\* open() raises FileNotFoundError, or the file is empty, or it has a header.
CsvKinds == {"missing", "empty", "open"}

\* Data rows the reader may yield, as the list of their fields.
CsvLines ==
    { << <<"alice">>, <<"a@h.org">>, <<"ClinicalAdmin">>, <<"Cardiology">>, <<"Chief">> >>,
      << <<WS, "bob", WS>>, <<"b@h.org", WS>>, <<WS, "SecurityAdmin">>, <<>>, <<>> >>,
      << <<"carol">>, <<"c@h.org">>, <<"Unknown">>, <<"ER">>, <<>> >>,
      << <<"dave">>, <<"d@h.org">>, <<WS>>, <<>>, <<>> >>,
      << <<"DataAnalyst">>, <<"erin">>, <<"e@h.org">> >>,
      << <<"Nurse">>, <<"finn">>, <<"f@h.org">> >>,
      << <<"SecurityAdmin">>, <<WS, "gina">>, <<"g@h.org">> >>,
      << <<"hank">> >> }

VARIABLES
    pc,            \* where main() is: "main", "manager", "reading", "report", "end"
    exit_status,   \* <<>> while running, <<code>> once the process has exited
    args_report,   \* args.report
    group_cache,   \* self.group_cache: group name -> group OCID
    csv_file,      \* what open(csv_file) found: "unopened", "missing", "empty", "open"
    fieldnames,    \* reader.fieldnames (<<>> stands for None while csv_file # "open")
    lines,         \* the data rows the reader has yielded so far
    results,       \* the list `results` of bulk_create_from_csv
    directory,     \* the directory service: user OCID -> account
    calls,         \* every identity_client call made, in order
    clock,         \* number of create_user timestamps taken
    summary,       \* the summary generate_report prints (None before)
    fs_writes,     \* every file written, in order: [path, content]
    io_errors      \* the "Error writing ..." branches generate_report took

vars == << pc, exit_status, args_report, group_cache, csv_file, fieldnames,
           lines, results, directory, calls, clock, summary, fs_writes,
           io_errors >>

Running == exit_status = <<>>

Init ==
    /\ pc = "main"
    /\ exit_status = <<>>
    /\ args_report \in ReportPaths
    /\ group_cache = << >>
    /\ csv_file = "unopened"
    /\ fieldnames = << >>
    /\ lines = << >>
    /\ results = << >>
    /\ directory = << >>
    /\ calls = << >>
    /\ clock = 0
    /\ summary = None
    /\ fs_writes = << >>
    /\ io_errors = {}

\* One identity_client call: the operation, the record (row number) it was
\* made for (0 for list_groups), what it was given, and how it ended.
Call(op, rec, user, group, details, status) ==
    [op |-> op, rec |-> rec, user_id |-> user, group_id |-> group,
     details |-> details, status |-> status]

(***************************************************************************)
(* HealthcareUserManager.__init__ and _load_groups                         *)
(***************************************************************************)
\* Mutant: the cache is keyed by id: self.group_cache[group.id] = group.name
RECURSIVE CacheGroupsById(_, _)
CacheGroupsById(cache, groups) ==
    IF groups = << >> THEN cache
    ELSE LET g == Head(groups)
             rest == [n \in DOMAIN cache \ {g.id} |-> cache[n]]
         IN CacheGroupsById(rest @@ (g.id :> g.name), Tail(groups))

\* for group in groups: self.group_cache[group.name] = group.id
RECURSIVE CacheGroups(_, _)
CacheGroups(cache, groups) ==
    IF groups = << >> THEN cache
    ELSE LET g == Head(groups)
             rest == [n \in DOMAIN cache \ {g.name} |-> cache[n]]
         IN CacheGroups(rest @@ (g.name :> g.id), Tail(groups))

\* Mutant: the except clause of _load_groups only prints.
LoadErrorContinues(status) == FALSE

\* except Exception: print, sys.exit(1)
LoadErrorExits(status) == status # "ok"

LoadGroups ==
    /\ Running /\ pc = "main"
    /\ \E status \in {"ok", "ServiceError", "Exception"}, listing \in GroupListings :
        /\ calls' = Append(calls, Call("list_groups", 0, None, None,
                                 IF status = "ok" THEN listing ELSE None,
                                 status))
        /\ group_cache' = IF status = "ok" THEN CacheGroups(group_cache, listing)
                          ELSE group_cache
        /\ IF LoadErrorExits(status)
           THEN /\ exit_status' = <<1>>
                /\ pc' = pc
           ELSE /\ exit_status' = exit_status
                /\ pc' = "manager"
    /\ UNCHANGED << args_report, csv_file, fieldnames, lines, results,
                    directory, clock, summary, fs_writes, io_errors >>

(***************************************************************************)
(* bulk_create_from_csv: opening the file and validating the header        *)
(***************************************************************************)
required_headers == {"username", "email", "role"}

HasKey(header, name) == \E i \in 1..Len(header) : header[i] = name

\* required_headers.issubset(set(reader.fieldnames)); for an empty file
\* fieldnames is None and set(None) raises TypeError.
HeaderOk(kind, header) ==
    /\ kind = "open"
    /\ \A h \in required_headers : HasKey(header, h)

OpenCsv ==
    /\ Running /\ pc = "manager"
    /\ \E kind \in CsvKinds, header \in CsvHeaders :
        IF kind = "missing"
        THEN \* except FileNotFoundError: sys.exit(1)
             /\ csv_file' = "missing"
             /\ fieldnames' = fieldnames
             /\ exit_status' = <<1>>
             /\ pc' = pc
        ELSE /\ csv_file' = kind
             /\ fieldnames' = IF kind = "open" THEN header ELSE << >>
             /\ IF HeaderOk(kind, fieldnames')
                THEN /\ exit_status' = exit_status
                     /\ pc' = "reading"
                ELSE \* sys.exit(1), or TypeError caught by except Exception
                     /\ exit_status' = <<1>>
                     /\ pc' = pc
    /\ UNCHANGED << args_report, group_cache, lines, results, directory,
                    calls, clock, summary, fs_writes, io_errors >>

(***************************************************************************)
(* create_user                                                             *)
(***************************************************************************)
\* result = {...}: the outcome as initialised at the top of create_user.
NewResult(username, email, role, department, now) ==
    [username |-> username, email |-> email, role |-> role,
     department |-> department, success |-> FALSE, user_ocid |-> None,
     group_name |-> None, error |-> None, timestamp |-> now]

\* Mutant: the group existence check is missing.
GroupKnownAlways(group_name, cache) == TRUE

\* group_name in self.group_cache
GroupKnown(group_name, cache) == group_name \in DOMAIN cache

\* user_desc = description or f"Healthcare {role}", plus " - {department}".
UserDesc(role, department, description) ==
    (IF description # << >> THEN description ELSE <<"Healthcare", WS>> \o role)
    \o (IF department # << >> THEN <<WS, "-", WS>> \o department ELSE << >>)

CreateUserDetails(username, email, role, department, description, day) ==
    [name |-> username, email |-> email,
     description |-> UserDesc(role, department, description),
     freeform_tags |->
        [Role |-> role,
         Department |-> IF department # << >> THEN department ELSE <<"Unspecified">>,
         CreatedBy |-> <<"Automated-Provisioning">>,
         CreatedDate |-> day]]

\* Mutant: API keys are left enabled.
CapabilitiesKeysEnabled ==
    [can_use_console_password |-> TRUE, can_use_api_keys |-> TRUE]

Capabilities ==
    [can_use_console_password |-> TRUE, can_use_api_keys |-> FALSE]

Attempt(exc, user_ocid, success, made) ==
    [exc |-> exc, user_ocid |-> user_ocid, success |-> success, calls |-> made]

\* Mutant: a failed group binding does not end the block; the capabilities
\* are configured all the same and the binding error is raised afterwards.
TryStepsNoStop(rec, details, group_name, cache, n, rc, ra, rs) ==
    LET user_ocid == Ocid(n + 1)
        c1 == Call("create_user", rec, IF rc = "ok" THEN user_ocid ELSE None,
                   None, details, rc)
    IN  IF rc # "ok" THEN Attempt(rc, None, FALSE, <<c1>>)
        ELSE IF group_name \notin DOMAIN cache
        THEN Attempt("Exception", user_ocid, FALSE, <<c1>>)
        ELSE
        LET c2 == Call("add_user_to_group", rec, user_ocid, cache[group_name],
                       None, ra)
            c3 == Call("update_user_capabilities", rec, user_ocid, None,
                       Capabilities, rs)
        IN  IF ra # "ok" THEN Attempt(ra, user_ocid, FALSE, <<c1, c2, c3>>)
            ELSE IF rs # "ok" THEN Attempt(rs, user_ocid, FALSE, <<c1, c2, c3>>)
            ELSE Attempt(None, user_ocid, TRUE, <<c1, c2, c3>>)

\* The try block: create the user, add it to the group, configure its
\* capabilities; the first call that raises ends the block.  n is the number
\* of accounts the directory holds, rc/ra/rs how the three calls end.
TrySteps(rec, details, group_name, cache, n, rc, ra, rs) ==
    LET user_ocid == Ocid(n + 1)
        c1 == Call("create_user", rec, IF rc = "ok" THEN user_ocid ELSE None,
                   None, details, rc)
    IN  IF rc # "ok" THEN Attempt(rc, None, FALSE, <<c1>>)
        ELSE IF group_name \notin DOMAIN cache
        THEN \* self.group_cache[group_name] raises KeyError
             Attempt("Exception", user_ocid, FALSE, <<c1>>)
        ELSE
        LET c2 == Call("add_user_to_group", rec, user_ocid, cache[group_name],
                       None, ra)
        IN  IF ra # "ok" THEN Attempt(ra, user_ocid, FALSE, <<c1, c2>>)
            ELSE
            LET c3 == Call("update_user_capabilities", rec, user_ocid, None,
                           Capabilities, rs)
            IN  IF rs # "ok" THEN Attempt(rs, user_ocid, FALSE, <<c1, c2, c3>>)
                ELSE Attempt(None, user_ocid, TRUE, <<c1, c2, c3>>)

\* Mutant: only oci.exceptions.ServiceError is caught.
CaughtServiceErrorOnly(exc) == exc = "ServiceError"

\* except oci.exceptions.ServiceError / except Exception
Caught(exc) == exc \in {"ServiceError", "Exception"}

\* Mutant: only a ServiceError carries a message into result['error'].
ErrorTextServiceOnly(exc) ==
    IF exc = "ServiceError" THEN "OCI Service Error" ELSE None

\* Mutant: `except Exception` comes first and catches every failure.
ErrorTextAllUnexpected(exc) == "Unexpected error"

\* result['error'] as the two except clauses set it.
ErrorText(exc) ==
    IF exc = "ServiceError" THEN "OCI Service Error" ELSE "Unexpected error"

\* Mutant: a failed attempt returns the outcome without the account id.
FinishResultRollback(result, group_name, attempt) ==
    IF attempt.success
    THEN [result EXCEPT !.group_name = group_name,
                        !.user_ocid = attempt.user_ocid, !.success = TRUE]
    ELSE [result EXCEPT !.group_name = group_name,
                        !.error = ErrorText(attempt.exc)]

\* Mutant: result['group_name'] is only set on the success path.
FinishResultGroupOnSuccess(result, group_name, attempt) ==
    IF attempt.success
    THEN [result EXCEPT !.group_name = group_name,
                        !.user_ocid = attempt.user_ocid, !.success = TRUE]
    ELSE [result EXCEPT !.user_ocid = attempt.user_ocid,
                        !.error = ErrorText(attempt.exc)]

\* The outcome after the try block: group_name (line 101), user_ocid
\* (line 125), then success (line 148) or error (lines 152, 155).
FinishResult(result, group_name, attempt) ==
    IF attempt.success
    THEN [result EXCEPT !.group_name = group_name,
                        !.user_ocid = attempt.user_ocid, !.success = TRUE]
    ELSE [result EXCEPT !.group_name = group_name,
                        !.user_ocid = attempt.user_ocid,
                        !.error = ErrorText(attempt.exc)]

Returned(result, made) == [raised |-> FALSE, result |-> result, calls |-> made]

create_user(rec, username, email, role, department, description, cache, n, rc, ra, rs, now) ==
    LET result == NewResult(username, email, role, department, now)
        group_name == RoleGet(role)
    IN  IF group_name = None
        THEN Returned([result EXCEPT !.error = "Invalid role"], << >>)
        ELSE IF ~GroupKnown(group_name, cache)
        THEN Returned([result EXCEPT !.error = "Group not found in OCI"], << >>)
        ELSE
        LET details == CreateUserDetails(username, email, role, department,
                                         description, now)
            attempt == TrySteps(rec, details, group_name, cache, n, rc, ra, rs)
        IN  IF attempt.success \/ Caught(attempt.exc)
            THEN Returned(FinishResult(result, group_name, attempt), attempt.calls)
            ELSE [raised |-> TRUE, result |-> result, calls |-> attempt.calls]

(***************************************************************************)
(* The directory service: the effect of the calls that ended normally.     *)
(***************************************************************************)
ApplyCall(dir, c) ==
    IF c.status # "ok" THEN dir
    ELSE CASE c.op = "create_user" ->
                dir @@ (c.user_id :>
                    [name |-> c.details.name, email |-> c.details.email,
                     description |-> c.details.description,
                     freeform_tags |-> c.details.freeform_tags,
                     groups |-> {},
                     can_use_console_password |-> TRUE,
                     can_use_api_keys |-> TRUE])
           [] c.op = "add_user_to_group" ->
                [dir EXCEPT ![c.user_id].groups = @ \cup {c.group_id}]
           [] c.op = "update_user_capabilities" ->
                [dir EXCEPT ![c.user_id].can_use_console_password =
                                c.details.can_use_console_password,
                            ![c.user_id].can_use_api_keys =
                                c.details.can_use_api_keys]
           [] OTHER -> dir

RECURSIVE ApplyCalls(_, _)
ApplyCalls(dir, made) ==
    IF made = << >> THEN dir
    ELSE ApplyCalls(ApplyCall(dir, Head(made)), Tail(made))

(***************************************************************************)
(* bulk_create_from_csv: the loop over the rows                            *)
(***************************************************************************)
\* Position of a column in the header (csv.DictReader zips fieldnames with
\* the fields of the row; a later duplicate column would win, none is used).
IndexOf(header, name) == CHOOSE i \in 1..Len(header) : header[i] = name

\* row[name] is None: the row has fewer fields than the header (restval).
IsMissing(header, line, name) ==
    HasKey(header, name) /\ IndexOf(header, name) > Len(line)

\* row.get(name, ''): the field, or '' when the header has no such column.
RowGet(header, line, name) ==
    IF HasKey(header, name) THEN line[IndexOf(header, name)] ELSE << >>

\* None.strip() raises AttributeError for any of the five columns read.
RowFaulty(header, line) ==
    \E name \in {"username", "email", "role", "department", "description"} :
        IsMissing(header, line, name)

\* Mutant: results.insert(0, result)
PrependResult(rs, r) == <<r>> \o rs

\* Mutant: only successful outcomes are collected.
AppendResultSuccessOnly(rs, r) == IF r.success THEN Append(rs, r) ELSE rs

\* results.append(result)
AppendResult(rs, r) == Append(rs, r)

\* A row with a missing field: AttributeError, caught by `except Exception`
\* around the whole loop, which exits.
RowFault ==
    /\ Running /\ pc = "reading" /\ Len(lines) < MaxRows
    /\ \E line \in CsvLines :
        /\ RowFaulty(fieldnames, line)
        /\ lines' = Append(lines, line)
    /\ exit_status' = <<1>>
    /\ UNCHANGED << pc, args_report, group_cache, csv_file, fieldnames,
                    results, directory, calls, clock, summary, fs_writes,
                    io_errors >>

\* One iteration of the loop for a well-formed row.
ProcessRow ==
    /\ Running /\ pc = "reading" /\ Len(lines) < MaxRows
    /\ \E line \in CsvLines, rc \in CallResults, ra \in CallResults,
          rs \in CallResults :
        /\ ~RowFaulty(fieldnames, line)
        /\ LET username == strip(RowGet(fieldnames, line, "username"))
               email == strip(RowGet(fieldnames, line, "email"))
               role == strip(RowGet(fieldnames, line, "role"))
               department == strip(RowGet(fieldnames, line, "department"))
               description == strip(RowGet(fieldnames, line, "description"))
               ret == create_user(Len(lines) + 1, username, email, role,
                                  department, description, group_cache,
                                  Cardinality(DOMAIN directory), rc, ra, rs,
                                  clock + 1)
           IN  /\ lines' = Append(lines, line)
               /\ clock' = clock + 1
               /\ calls' = calls \o ret.calls
               /\ directory' = ApplyCalls(directory, ret.calls)
               /\ IF ret.raised
                  THEN \* caught by `except Exception` around the loop
                       /\ exit_status' = <<1>>
                       /\ results' = results
                  ELSE /\ exit_status' = exit_status
                       /\ results' = AppendResult(results, ret.result)
    /\ UNCHANGED << pc, args_report, group_cache, csv_file, fieldnames,
                    summary, fs_writes, io_errors >>

\* The reader is exhausted: return results.
EndOfFile ==
    /\ Running /\ pc = "reading"
    /\ pc' = "report"
    /\ UNCHANGED << exit_status, args_report, group_cache, csv_file,
                    fieldnames, lines, results, directory, calls, clock,
                    summary, fs_writes, io_errors >>

(***************************************************************************)
(* generate_report                                                         *)
(***************************************************************************)
\* sum(1 for r in results if r['success'])
CountSuccessful(rs) == Cardinality({k \in 1..Len(rs) : rs[k].success})

\* n/total*100 formatted with one decimal, in tenths of a percent; the
\* division raises ZeroDivisionError when total is 0.
Ratio(n, total) ==
    IF total = 0 THEN [raised |-> TRUE, shown |-> << >>]
    ELSE [raised |-> FALSE, shown |-> << (n * 2000 + total) \div (2 * total) >>]

\* f"... ({n/total*100:.1f}%)" if total > 0 else "..."
PctText(n, total) ==
    IF total > 0 THEN Ratio(n, total) ELSE [raised |-> FALSE, shown |-> << >>]

\* Mutant: the breakdown counts every outcome of the role.
RoleCountsAll(rs) ==
    [role \in {rs[k].role : k \in 1..Len(rs)} |->
        Cardinality({k \in 1..Len(rs) : rs[k].role = role})]

\* role_counts, built only when successful > 0, over successful outcomes.
RoleCounts(rs) ==
    IF CountSuccessful(rs) > 0
    THEN [role \in {rs[k].role : k \in {j \in 1..Len(rs) : rs[j].success}} |->
            Cardinality({k \in 1..Len(rs) : rs[k].success /\ rs[k].role = role})]
    ELSE << >>

\* The "Failed Users" listing, printed only when failed > 0.
RECURSIVE FailureLines(_)
FailureLines(rs) ==
    IF rs = << >> THEN << >>
    ELSE (IF ~Head(rs).success
          THEN << [username |-> Head(rs).username, role |-> Head(rs).role,
                   error |-> Head(rs).error] >>
          ELSE << >>) \o FailureLines(Tail(rs))

Summarize(rs) ==
    LET total == Len(rs)
        successful == CountSuccessful(rs)
        failed == total - successful
    IN  [total |-> total, successful |-> successful, failed |-> failed,
         pct_successful |-> PctText(successful, total).shown,
         pct_failed |-> PctText(failed, total).shown,
         raised |-> PctText(successful, total).raised
                    \/ PctText(failed, total).raised,
         role_counts |-> RoleCounts(rs),
         failures |-> IF failed > 0 THEN FailureLines(rs) ELSE << >>]

\* Column order of the detail report.
report_fieldnames ==
    <<"timestamp", "username", "email", "role", "department", "group_name",
      "success", "user_ocid", "error">>

\* One csv.DictWriter row: the values in column order, None written as ''
\* and a bool as 'True' / 'False'.
CsvText(v) == IF v = None THEN "" ELSE v
CsvRow(r) ==
    << r.timestamp, r.username, r.email, r.role, r.department,
       CsvText(r.group_name), IF r.success THEN "True" ELSE "False",
       CsvText(r.user_ocid), CsvText(r.error) >>

DetailReport(rs) ==
    [kind |-> "csv", header |-> report_fieldnames,
     rows |-> [k \in 1..Len(rs) |-> CsvRow(rs[k])]]

AuditLog(rs, sm, now) ==
    [kind |-> "json", operation |-> "bulk_user_onboarding", timestamp |-> now,
     summary |-> [total |-> sm.total, successful |-> sm.successful,
                  failed |-> sm.failed],
     results |-> rs]

\* str.replace(old, new) on a path, whose atoms are its name parts.
Replace(path, old, new) ==
    [i \in 1..Len(path) |-> IF path[i] = old THEN new ELSE path[i]]

\* audit_file = output_file.replace('.csv', '_audit.json') if output_file
\*              else 'audit.json'
AuditPath(output_file) ==
    IF output_file # << >> THEN Replace(output_file, ".csv", "_audit.json")
    ELSE <<"audit", ".json">>

\* with open(path, 'w') ...: the file written, or the except branch taken.
WriteFile(writes, ok, path, content) ==
    IF ok THEN Append(writes, [path |-> path, content |-> content]) ELSE writes

\* manager.generate_report(results, args.report), then the end of main().
GenerateReport ==
    /\ Running /\ pc = "report"
    /\ pc' = "end"
    /\ LET sm == Summarize(results)
           output_file == args_report
       IN  IF sm.raised
           THEN \* the exception leaves main(): traceback, exit status 1
                /\ exit_status' = <<1>>
                /\ UNCHANGED << summary, fs_writes, io_errors >>
           ELSE \E report_ok \in BOOLEAN, audit_ok \in BOOLEAN :
                /\ summary' = sm
                /\ fs_writes' =
                     WriteFile(
                        IF output_file # << >>
                        THEN WriteFile(fs_writes, report_ok, output_file,
                                       DetailReport(results))
                        ELSE fs_writes,
                        audit_ok, AuditPath(output_file),
                        AuditLog(results, sm, clock + 1))
                /\ io_errors' =
                     (IF output_file # << >> /\ ~report_ok
                      THEN {"report"} ELSE {})
                     \cup (IF ~audit_ok THEN {"audit"} ELSE {})
                /\ exit_status' = <<0>>
    /\ UNCHANGED << args_report, group_cache, csv_file, fieldnames, lines,
                    results, directory, calls, clock >>

Next ==
    LoadGroups \/ OpenCsv \/ RowFault \/ ProcessRow \/ EndOfFile
    \/ GenerateReport

Spec == Init /\ [][Next]_vars

(***************************************************************************)
(* Vocabulary of the properties                                            *)
(***************************************************************************)
Records == 1..Len(results)

\* The role of input record k, as the loop reads it from row k.
RecordRole(k) == strip(RowGet(fieldnames, lines[k], "role"))
RecordUsername(k) == strip(RowGet(fieldnames, lines[k], "username"))
RecordEmail(k) == strip(RowGet(fieldnames, lines[k], "email"))

ProvisioningOps == {"create_user", "add_user_to_group", "update_user_capabilities"}

\* The positions in the call log of the calls made for record k.
CallsOf(k, ops) ==
    {i \in 1..Len(calls) : calls[i].rec = k /\ calls[i].op \in ops}

NoProvisioningCall == \A i \in 1..Len(calls) : calls[i].op \notin ProvisioningOps

\* Record k: createAccount succeeded and addAccountToGroup failed with `kind`.
BindingFailed(k, kind) ==
    /\ \E i \in CallsOf(k, {"create_user"}) : calls[i].status = "ok"
    /\ \E i \in CallsOf(k, {"add_user_to_group"}) : calls[i].status = kind

\* C1: when createAccount succeeds and addAccountToGroup fails (either
\* kind), the outcome has success = false, the account id createAccount
\* returned, the group mapped from the role and an error; the account stays
\* in the directory and setAccountCapabilities is not called for it.
C1_BindingFailureKeepsAccountId ==
    \A k \in 1..Len(lines) :
        (\E kind \in {"ServiceError", "Exception"} : BindingFailed(k, kind)) =>
            /\ k \in Records
            /\ ~results[k].success
            /\ results[k].user_ocid # None
            /\ \E i \in CallsOf(k, {"create_user"}) :
                    calls[i].user_id = results[k].user_ocid
            /\ IsRoleKey(RecordRole(k))
            /\ results[k].group_name = ROLE_MAPPINGS[RecordRole(k)[1]]
            /\ results[k].error # None
            /\ results[k].user_ocid \in DOMAIN directory
            /\ CallsOf(k, {"update_user_capabilities"}) = {}

C1_Witness ==
    /\ Len(results) = 2
    /\ BindingFailed(1, "ServiceError")
    /\ BindingFailed(2, "Exception")
    /\ Cardinality(DOMAIN directory) = 2

\* C2: a record whose role is not a key of ROLE_MAPPINGS (the empty role
\* included) gets success = false, no account id and the error "Invalid
\* role", and no provisioning call is made for it.
C2_InvalidRoleRejected ==
    \A k \in Records :
        ~IsRoleKey(RecordRole(k)) =>
            /\ ~results[k].success
            /\ results[k].user_ocid = None
            /\ results[k].error = "Invalid role"
            /\ CallsOf(k, ProvisioningOps) = {}

C2_Witness ==
    /\ Len(results) = 2
    /\ RecordRole(1) = << >>
    /\ RecordRole(2) = <<"Unknown">>
    /\ results[1].error = "Invalid role"
    /\ results[2].error = "Invalid role"

\* C3: a record with a valid role whose mapped group is not in group_cache
\* gets success = false, the error "Group not found", no account id, and
\* no remote call: no account is created for it.
C3_UnknownGroupRejected ==
    \A k \in Records :
        (IsRoleKey(RecordRole(k))
         /\ ROLE_MAPPINGS[RecordRole(k)[1]] \notin DOMAIN group_cache) =>
            /\ ~results[k].success
            /\ results[k].error = "Group not found in OCI"
            /\ results[k].user_ocid = None
            /\ CallsOf(k, ProvisioningOps) = {}
            /\ \A id \in DOMAIN directory :
                    \E i \in 1..Len(calls) :
                        /\ calls[i].op = "create_user"
                        /\ calls[i].user_id = id
                        /\ calls[i].rec # k

C3_Witness ==
    /\ "HC-Clinical-App-Admins" \in DOMAIN group_cache
    /\ "HC-Security-Admins" \notin DOMAIN group_cache
    /\ \E k \in Records :
        /\ RecordRole(k) = <<"SecurityAdmin">>
        /\ results[k].error = "Group not found in OCI"

\* C4: in every outcome, success implies no error and an account id, and
\* an error is present exactly when success is false.
C4_SuccessXorError ==
    \A k \in Records :
        /\ results[k].success =>
                (results[k].error = None /\ results[k].user_ocid # None)
        /\ (results[k].error # None) <=> ~results[k].success

C4_Witness ==
    /\ Len(results) = 2
    /\ results[1].success
    /\ results[2].error = "Unexpected error"
    /\ results[2].user_ocid # None

\* C5: a failed record never aborts the run: every well-formed row read
\* has its outcome, and the loop is only ever left through the end of the
\* input or a malformed row, whatever the earlier outcomes were.
C5_ContinueOnError ==
    /\ \A k \in 1..Len(lines) :
            ~RowFaulty(fieldnames, lines[k]) => k \in Records
    /\ (pc = "reading" /\ ~Running) =>
            (lines # << >> /\ RowFaulty(fieldnames, lines[Len(lines)]))
    /\ (pc = "reading" /\ Running) => Len(results) = Len(lines)

C5_Witness ==
    /\ Len(results) = 2
    /\ results[1].error = "Unexpected error"
    /\ results[1].user_ocid = None
    /\ results[2].error = "OCI Service Error"
    /\ pc = "reading" /\ Running

\* The audit log on disk: the JSON documents written, in order.
AuditRecords ==
    SelectSeq(fs_writes, LAMBDA w : w.content.kind = "json")

\* C6: the audit record of a run holds the outcomes of the run with the
\* fields of the detail report, so that once the run is over every account
\* created in the directory during it (grouped and configured or not)
\* appears in the audit record with its account id.
C6_AuditHoldsEveryAccount ==
    (~Running /\ "audit" \notin io_errors) =>
        \A id \in DOMAIN directory :
            \E a \in 1..Len(AuditRecords) :
                \E k \in 1..Len(AuditRecords[a].content.results) :
                    /\ AuditRecords[a].content.results[k].user_ocid = id
                    /\ DOMAIN AuditRecords[a].content.results[k] =
                         {report_fieldnames[i] : i \in 1..Len(report_fieldnames)}

\* The detail reports written, in order.
DetailReports ==
    SelectSeq(fs_writes, LAMBDA w : w.content.kind = "csv")

\* C7: the outcome list the batch returns, and the rows of the detail
\* report written from it, have one entry per input record, in input
\* order, carrying that record's username, email and role.
C7_OutcomesInInputOrder ==
    (pc \in {"report", "end"}) =>
        /\ Len(results) = Len(lines)
        /\ \A k \in Records :
                /\ results[k].username = RecordUsername(k)
                /\ results[k].email = RecordEmail(k)
                /\ results[k].role = RecordRole(k)
        /\ \A d \in 1..Len(DetailReports) :
                /\ Len(DetailReports[d].content.rows) = Len(lines)
                /\ \A k \in 1..Len(lines) :
                        /\ DetailReports[d].content.rows[k][2] = RecordUsername(k)
                        /\ DetailReports[d].content.rows[k][3] = RecordEmail(k)
                        /\ DetailReports[d].content.rows[k][4] = RecordRole(k)

C7_Witness ==
    /\ pc = "end"
    /\ Len(DetailReports) = 1
    /\ Len(results) = 2
    /\ ~results[1].success
    /\ results[2].success
    /\ results[1].username # results[2].username
    /\ RowGet(fieldnames, lines[2], "username") # results[2].username

RECURSIVE SumOver(_, _)
SumOver(f, S) ==
    IF S = {} THEN 0
    ELSE LET x == CHOOSE y \in S : TRUE IN f[x] + SumOver(f, S \ {x})

Failed(rs) == SelectSeq(rs, LAMBDA r : ~r.success)

\* C8: generate_report completes on every outcome list, the empty one
\* included, with total = successful + failed, role counts that add up to
\* the number of successes, and a failure listing of total - successful
\* entries in processing order.
C8_SummaryCounts ==
    (pc = "end") =>
        /\ exit_status = <<0>>
        /\ summary.total = Len(results)
        /\ summary.total = summary.successful + summary.failed
        /\ summary.successful = Len(SelectSeq(results, LAMBDA r : r.success))
        /\ SumOver(summary.role_counts, DOMAIN summary.role_counts)
                = summary.successful
        /\ Len(summary.failures) = summary.total - summary.successful
        /\ \A j \in 1..Len(summary.failures) :
                /\ summary.failures[j].username = Failed(results)[j].username
                /\ summary.failures[j].role = Failed(results)[j].role
                /\ summary.failures[j].error = Failed(results)[j].error

C8_Witness ==
    /\ pc = "end"
    /\ results = << >>
    /\ exit_status = <<0>>
    /\ summary.total = 0
    /\ Len(fs_writes) = 2

\* A fatal condition: the group load failed, the input file does not
\* exist, or its header lacks a required column.
GroupLoadFailed ==
    \E i \in 1..Len(calls) :
        calls[i].op = "list_groups" /\ calls[i].status # "ok"
HeaderInvalid ==
    csv_file \in {"empty", "open"} /\ ~HeaderOk(csv_file, fieldnames)
Fatal == GroupLoadFailed \/ csv_file = "missing" \/ HeaderInvalid

\* C9: on a fatal condition the run aborts before any record is processed:
\* no provisioning call is ever made and no report or audit file written.
C9_FatalAbortsBeforeAnyRecord ==
    Fatal =>
        /\ exit_status = <<1>>
        /\ NoProvisioningCall
        /\ lines = << >> /\ results = << >>
        /\ fs_writes = << >>

C9_Witness ==
    /\ HeaderInvalid
    /\ csv_file = "open"
    /\ group_cache # << >>
    /\ exit_status = <<1>>

\* C10: the command exits non-zero on a fatal condition and zero
\* otherwise: a run whose group load and header validation succeeded ends
\* with exit status zero.
C10_ExitStatus ==
    ~Running => (exit_status = <<1>> <=> Fatal)

\* Record k: its createAccount call ended normally.
CreateSucceeded(k) ==
    \E i \in CallsOf(k, {"create_user"}) : calls[i].status = "ok"

\* Record k: its role is valid and the mapped group is in group_cache.
GroupResolved(k) ==
    /\ IsRoleKey(RecordRole(k))
    /\ ROLE_MAPPINGS[RecordRole(k)[1]] \in DOMAIN group_cache

\* C11: an outcome has an account id exactly when createAccount succeeded
\* for its record, and a group name exactly when the role was valid and its
\* group was found; a capability failure gives success = false with both.
C11_AccountIdIffCreated ==
    \A k \in Records :
        /\ (results[k].user_ocid # None) <=> CreateSucceeded(k)
        /\ (results[k].group_name # None) <=> GroupResolved(k)
        /\ (\E i \in CallsOf(k, {"update_user_capabilities"}) :
                calls[i].status # "ok") =>
                /\ ~results[k].success
                /\ results[k].user_ocid # None
                /\ results[k].group_name # None

C11_Witness ==
    /\ Len(results) = 2
    /\ \E i \in CallsOf(1, {"update_user_capabilities"}) :
            calls[i].status = "ServiceError"
    /\ results[1].user_ocid # None /\ results[1].group_name # None
    /\ \E i \in CallsOf(2, {"create_user"}) : calls[i].status = "Exception"
    /\ results[2].user_ocid = None /\ results[2].group_name # None

\* C12: the role-to-group mapping has six roles, maps two distinct roles to
\* two distinct groups, and every outcome that names a group names the
\* group of its role, the same whenever the role comes again.
C12_RoleMappingOneToOne ==
    /\ Cardinality(DOMAIN ROLE_MAPPINGS) = 6
    /\ \A r1 \in DOMAIN ROLE_MAPPINGS, r2 \in DOMAIN ROLE_MAPPINGS :
            r1 # r2 => ROLE_MAPPINGS[r1] # ROLE_MAPPINGS[r2]
    /\ \A k \in Records :
            results[k].group_name # None =>
                /\ IsRoleKey(results[k].role)
                /\ results[k].group_name = ROLE_MAPPINGS[results[k].role[1]]
    /\ \A j \in Records, k \in Records :
            (results[j].group_name # None /\ results[k].group_name # None) =>
                (results[j].role = results[k].role
                    <=> results[j].group_name = results[k].group_name)

C12_Witness ==
    /\ Len(results) = 2
    /\ results[1].role = <<"SecurityAdmin">>
    /\ results[2].role = <<"SecurityAdmin">>
    /\ results[1].timestamp # results[2].timestamp
    /\ results[1].group_name = "HC-Security-Admins"
    /\ results[2].group_name = "HC-Security-Admins"
    /\ results[1].success /\ ~results[2].success

\* C13: within one record each of the three calls is made at most once,
\* addAccountToGroup only after createAccount succeeded,
\* setAccountCapabilities only after addAccountToGroup succeeded, and no
\* call follows the first failing one.
C13_StepsInStrictOrder ==
    \A k \in 1..Len(lines) :
        /\ \A op \in ProvisioningOps : Cardinality(CallsOf(k, {op})) <= 1
        /\ \A i \in CallsOf(k, {"add_user_to_group"}) :
                \E j \in CallsOf(k, {"create_user"}) :
                    j < i /\ calls[j].status = "ok"
        /\ \A i \in CallsOf(k, {"update_user_capabilities"}) :
                \E j \in CallsOf(k, {"add_user_to_group"}) :
                    j < i /\ calls[j].status = "ok"
        /\ \A i \in CallsOf(k, ProvisioningOps) :
                calls[i].status # "ok" =>
                    \A j \in CallsOf(k, ProvisioningOps) : j <= i

C13_Witness ==
    /\ Len(results) = 2
    /\ Cardinality(CallsOf(1, ProvisioningOps)) = 2
    /\ \E i \in CallsOf(1, {"add_user_to_group"}) : calls[i].status = "Exception"
    /\ Cardinality(CallsOf(2, ProvisioningOps)) = 3
    /\ results[2].success

\* C14: every successful outcome stands for an account that exists in the
\* directory, is a member of exactly the group whose id group_cache gives
\* for the group of its role, can use the console password and cannot use
\* API keys; the outcome names that group.
C14_SuccessMeansConfigured ==
    \A k \in Records :
        results[k].success =>
            /\ GroupResolved(k)
            /\ results[k].group_name = ROLE_MAPPINGS[RecordRole(k)[1]]
            /\ results[k].user_ocid \in DOMAIN directory
            /\ directory[results[k].user_ocid].groups =
                    {group_cache[ROLE_MAPPINGS[RecordRole(k)[1]]]}
            /\ directory[results[k].user_ocid].can_use_console_password
            /\ ~directory[results[k].user_ocid].can_use_api_keys

C14_Witness ==
    /\ Len(results) = 2
    /\ results[1].success /\ results[2].success
    /\ results[1].role # results[2].role
    /\ directory[results[1].user_ocid].groups = {"ocid1.group.sec"}
    /\ directory[results[2].user_ocid].groups = {"ocid1.group.clin"}

\* C15: a whole-run abort happens only before the first record: once a
\* createAccount call has been issued, no fault while reading a later row
\* aborts the run, and the run reaches generate_report with the outcomes of
\* all the records processed.
C15_NoAbortAfterFirstCreate ==
    (\E i \in 1..Len(calls) : calls[i].op = "create_user") =>
        /\ ~(pc = "reading" /\ ~Running)
        /\ ~Running =>
            (pc = "end" /\ exit_status = <<0>> /\ summary.total = Len(results))

\* C16: a run that reaches reporting leaves a detail report and an audit
\* record as two files: the audit path differs from the detail-report path,
\* so the audit record is never written over the detail report.
C16_AuditPathDiffers ==
    \A i \in 1..Len(fs_writes), j \in 1..Len(fs_writes) :
        (i < j /\ fs_writes[i].content.kind = "csv"
               /\ fs_writes[j].content.kind = "json") =>
            fs_writes[i].path # fs_writes[j].path

\* The calls a step adds to the call log.
NewCalls == (Len(calls) + 1)..Len(calls')

\* C17: records are processed one after another: the remote calls a step
\* issues all belong to the record that follows the outcomes already
\* appended, and that record's outcome is appended before any further call.
C17_RecordsSequential ==
    [][ \A i \in NewCalls :
            calls'[i].op \in ProvisioningOps =>
                /\ calls'[i].rec = Len(results) + 1
                /\ Len(results') = Len(results) + 1
                /\ SubSeq(results', 1, Len(results)) = results
                /\ SubSeq(calls', 1, Len(calls)) = calls ]_vars

C17_Witness ==
    /\ Len(results) = 2
    /\ CallsOf(1, ProvisioningOps) # {}
    /\ CallsOf(2, ProvisioningOps) # {}
    /\ ~results[1].success
    /\ \A i \in CallsOf(1, ProvisioningOps), j \in CallsOf(2, ProvisioningOps) :
            i < j

\* The groups list_groups returned at startup.
LoadedListing == calls[1].details
ListCalls == {i \in 1..Len(calls) : calls[i].op = "list_groups"}

\* C18: list_groups is called once, before anything else; from then on
\* group_cache is exactly the name -> id table of that listing, and every
\* group binding uses the id that listing gave for the record's group.
C18_GroupCacheLoadedOnce ==
    /\ ListCalls \subseteq {1}
    /\ (pc = "main") => DOMAIN group_cache = {}
    /\ (pc # "main") =>
        /\ ListCalls = {1} /\ calls[1].status = "ok"
        /\ DOMAIN group_cache =
                {LoadedListing[g].name : g \in 1..Len(LoadedListing)}
        /\ \A g \in 1..Len(LoadedListing) :
                group_cache[LoadedListing[g].name] = LoadedListing[g].id
        /\ \A i \in 1..Len(calls) :
                calls[i].op = "add_user_to_group" =>
                    \E g \in 1..Len(LoadedListing) :
                        /\ LoadedListing[g].name =
                                ROLE_MAPPINGS[RecordRole(calls[i].rec)[1]]
                        /\ LoadedListing[g].id = calls[i].group_id

C18_Witness ==
    /\ pc = "end"
    /\ Len(results) = 2
    /\ Len(LoadedListing) = 6
    /\ \E i \in CallsOf(2, {"add_user_to_group"}) :
            calls[i].group_id = "ocid1.group.data"

\* Record k: one of its remote calls ended with this kind of failure.
CallFailed(k, kind) ==
    \E i \in CallsOf(k, ProvisioningOps) : calls[i].status = kind

\* C19: a remote call that fails with a service error is recorded as
\* "OCI Service Error", one that fails with any other fault as "Unexpected
\* error", and a validation failure as neither.
C19_ErrorClassification ==
    \A k \in Records :
        /\ CallFailed(k, "ServiceError") =>
                results[k].error = "OCI Service Error"
        /\ CallFailed(k, "Exception") =>
                results[k].error = "Unexpected error"
        /\ ~GroupResolved(k) =>
                results[k].error \in {"Invalid role", "Group not found in OCI"}

C19_Witness ==
    /\ Len(results) = 2
    /\ \E i \in CallsOf(1, {"create_user"}) : calls[i].status = "ServiceError"
    /\ results[1].error = "OCI Service Error"
    /\ \E i \in CallsOf(2, {"update_user_capabilities"}) :
            calls[i].status = "Exception"
    /\ results[2].error = "Unexpected error"
====
